---- MODULE Spec2Model ----
(***************************************************************************)
(* Order costing of core/models.py and core/admin.py: Pedido (order),      *)
(* Articulo (item), the proportional distribution of an order total over   *)
(* the items (Pedido._distribuir_coste), the derived fields computed by    *)
(* Articulo.save, and the two profit computations.                         *)
(*                                                                         *)
(* Money is held in integer cents (a DecimalField with decimal_places=2),  *)
(* tasa_iva in hundredths (decimal_places=2) and tasa_cambio_eur_jpy in    *)
(* ten-thousandths (decimal_places=4).  A nullable column holds <<>> for   *)
(* NULL and <<v>> for the value v.                                         *)
(***************************************************************************)
EXTENDS Integers, Sequences, FiniteSets

\* ------------------------------------------------------------- bounds
\* Most items an order holds in the model.
MaxItems == 4
\* Most distribution calls in one behaviour.
MaxCalls == 2

\* ------------------------------------------- decimal.Decimal arithmetic
\* Significant digits of Python's default decimal context.
Prec == 28

Null == <<>>

Some(v) == <<v>>

\* `x or Decimal('0.00')` on a nullable value.
OrZero(x) == IF x = Null THEN 0 ELSE x[1]

Abs(x) == IF x < 0 THEN -x ELSE x

RECURSIVE Pow10(_)
Pow10(n) == IF n = 0 THEN 1 ELSE 10 * Pow10(n - 1)

\* The decimal digits of a natural number, most significant first.
RECURSIVE Digits(_)
Digits(n) == IF n < 10 THEN <<n>> ELSE Append(Digits(n \div 10), n % 10)

\* The natural number a digit sequence writes.
RECURSIVE FromDigits(_)
FromDigits(ds) ==
    IF ds = <<>> THEN 0
    ELSE 10 * FromDigits(SubSeq(ds, 1, Len(ds) - 1)) + ds[Len(ds)]

Zeros(n) == [i \in 1..n |-> 0]

\* A digit sequence plus one, carries propagated (999 becomes 1000).
RECURSIVE Increment(_)
Increment(ds) ==
    IF ds = <<>> THEN <<1>>
    ELSE IF ds[Len(ds)] < 9
         THEN [ds EXCEPT ![Len(ds)] = ds[Len(ds)] + 1]
         ELSE Append(Increment(SubSeq(ds, 1, Len(ds) - 1)), 0)

\* The first `keep` digits of ds (0 <= keep < Len(ds)), rounded on the dropped
\* ones: to nearest, an exact half to the even digit ("half_even", Python's
\* default ROUND_HALF_EVEN) or upwards ("half_up").
RoundDigits(ds, keep, mode) ==
    LET kept == SubSeq(ds, 1, keep)
        first == ds[keep + 1]
        rest == \E i \in (keep + 2)..Len(ds) : ds[i] # 0
        odd == keep > 0 /\ ds[keep] % 2 = 1
        up == \/ first > 5
              \/ first = 5 /\ rest
              \/ first = 5 /\ ~rest /\ (mode = "half_up" \/ odd)
    IN IF up THEN Increment(kept) ELSE kept

\* n digits of the long division of r by b (0 <= r < b), and what remains.
RECURSIVE LongDiv(_, _, _)
LongDiv(r, b, n) ==
    IF n = 0 THEN [digits |-> <<>>, rem |-> r]
    ELSE LET rest == LongDiv((10 * r) % b, b, n - 1)
         IN [digits |-> <<(10 * r) \div b>> \o rest.digits, rem |-> rest.rem]

\* The least k with a * 10^k >= b (a > 0).
RECURSIVE Shift(_, _)
Shift(a, b) == IF a >= b THEN 0 ELSE 1 + Shift(10 * a, b)

\* Decimal.__truediv__ of two decimals of the same exponent with coefficients
\* a >= 0 and b > 0: the quotient to Prec significant digits, ROUND_HALF_EVEN.
\* The value is coef * 10^exp.
DecimalDiv(a, b) ==
    IF a = 0 THEN [coef |-> <<0>>, exp |-> 0]
    ELSE LET k == Shift(a, b)
             a0 == a * Pow10(k)
             int == Digits(a0 \div b)
             frac == LongDiv(a0 % b, b, Prec - Len(int))
             ds == int \o frac.digits
             up == \/ 2 * frac.rem > b
                   \/ 2 * frac.rem = b /\ ds[Len(ds)] % 2 = 1
         IN [coef |-> IF up THEN Increment(ds) ELSE ds,
             exp |-> -(k + Prec - Len(int))]

\* The digits of ds[1..i] times t plus carry.
RECURSIVE MulDigits(_, _, _, _)
MulDigits(ds, t, i, carry) ==
    IF i = 0 THEN (IF carry = 0 THEN <<>> ELSE Digits(carry))
    ELSE LET v == ds[i] * t + carry
         IN Append(MulDigits(ds, t, i - 1, v \div 10), v % 10)

\* Decimal.__mul__ of a decimal of coefficient t > 0 and exponent e with d:
\* the exact product, rounded to Prec significant digits when it has more.
DecimalMul(t, e, d) ==
    LET ds == MulDigits(d.coef, t, Len(d.coef), 0)
        drop == Len(ds) - Prec
    IN IF ds = <<>> THEN [coef |-> <<0>>, exp |-> d.exp + e]
       ELSE IF drop <= 0 THEN [coef |-> ds, exp |-> d.exp + e]
       ELSE [coef |-> RoundDigits(ds, Prec, "half_even"), exp |-> d.exp + e + drop]

\* The storage of a decimal d >= 0 in a column of exponent e (decimal_places
\* = -e): d in units of 10^e, rounded by the database's rule `mode`.
Quantize(d, e, mode) ==
    LET n == e - d.exp
    IN IF n <= 0 THEN FromDigits(d.coef) * Pow10(-n)
       ELSE LET padded == Zeros(IF n + 1 > Len(d.coef) THEN n + 1 - Len(d.coef) ELSE 0)
                          \o d.coef
            IN FromDigits(RoundDigits(padded, Len(padded) - n, mode))

\* An integer x >= 0 counted in units of 1/unit, rounded to the nearest whole
\* number by `mode`.
RoundInt(x, unit, mode) ==
    LET q == x \div unit
        r == x % unit
    IN IF 2 * r > unit THEN q + 1
       ELSE IF 2 * r < unit THEN q
       ELSE IF mode = "half_up" \/ q % 2 = 1 THEN q + 1 ELSE q


\* ------------------------------------------------------------ the data
VARIABLES
    dbRounding,  \* how the database rounds a decimal to the column's scale
    pedido,      \* the Pedido row
    articulos,   \* the Articulo rows of the order, by primary key 1..Len
    pc,          \* where each request stands
    inst,        \* the Articulo instance a request holds in memory, if any
    dist,        \* the locals of a request's _distribuir_coste call
    calls,       \* distribution calls started so far
    fresh,       \* target fields whose last distribution's inputs are unchanged
    batch        \* per target field, the shares its last committed call wrote

vars == <<dbRounding, pedido, articulos, pc, inst, dist, calls, fresh, batch>>

\* The concurrent requests the model follows.
Requests == {1, 2}

\* The two target fields of a distribution.
Campos == {"aduana_imputada", "coste_envio_individual"}

\* The order total each distribution reads.
TotalDe(campo) ==
    IF campo = "aduana_imputada" THEN "gastos_aduana" ELSE "coste_envio_agrupado"

\* A value as the column `campo` holds it: coste_envio_individual is nullable.
Columna(campo, v) == IF campo = "coste_envio_individual" THEN Some(v) ELSE v

\* The value of the column `campo` of a row, NULL read as 0.
Valor(a, campo) ==
    IF campo = "coste_envio_individual" THEN OrZero(a[campo]) ELSE a[campo]

\* An Articulo as its constructor leaves it: the field defaults, no iva, no
\* coste_yen, and the given coste_envio_individual and aduana_imputada.
Articulo(envio, aduana) ==
    [coste_euro |-> 0,
     coste_envio_individual |-> envio,
     coste_yen |-> Null,
     iva |-> Null,
     aduana_imputada |-> aduana,
     precio_venta |-> 0,
     coste_envio_nacional |-> 0]

\* The locals of a request that is in no distribution call.
NoDist ==
    [campo |-> "", total |-> 0, base |-> 0, pending |-> <<>>, wrote |-> 0,
     before |-> <<>>, rerun |-> FALSE, result |-> FALSE]

\* What every specification starts from, the Pedido row aside.
InitCommon ==
    /\ dbRounding \in {"half_even", "half_up"}
    /\ pc = [p \in Requests |-> "idle"]
    /\ inst = [p \in Requests |-> <<>>]
    /\ dist = [p \in Requests |-> NoDist]
    /\ calls = 0
    /\ fresh = {}
    /\ batch = [campo \in Campos |-> <<>>]

\* ------------------------------------------------------- Articulo.save
\* A faulty variant of round: an exact half rounded upwards.
round_half_up(x, unit) == RoundInt(x, unit, "half_up")

\* round(Decimal) on a value >= 0 counted in units of 1/unit: Python rounds a
\* Decimal to the nearest integer, an exact half to the even one.
round(x, unit) == RoundInt(x, unit, "half_even")

\* Articulo.save: the row stored for the instance a under the Pedido ped.
\* iva is stored at 2 decimal places by the database's rounding.
save(a, ped, mode) ==
    LET a1 == IF ped.tasa_iva # 0 /\ a.coste_euro # 0
              THEN [a EXCEPT !.iva = Some(RoundInt(a.coste_euro * ped.tasa_iva, 100, mode))]
              ELSE a
    IN IF ped.tasa_cambio_eur_jpy # 0 /\ a1.coste_euro # 0
       THEN [a1 EXCEPT !.coste_yen =
                Some(round(a1.coste_euro * ped.tasa_cambio_eur_jpy, 1000000))]
       ELSE a1

\* A request builds a new Articulo of the order.
NewArticulo(p, envio, aduana) ==
    /\ pc[p] = "idle"
    /\ Len(articulos) < MaxItems
    /\ inst' = [inst EXCEPT ![p] = <<[pk |-> 0, row |-> Articulo(envio, aduana)]>>]
    /\ pc' = [pc EXCEPT ![p] = "instance"]
    /\ UNCHANGED <<dbRounding, pedido, articulos, dist, calls, fresh, batch>>

\* A request loads the Articulo of primary key i.
LoadArticulo(p, i) ==
    /\ pc[p] = "idle"
    /\ i \in 1..Len(articulos)
    /\ inst' = [inst EXCEPT ![p] = <<[pk |-> i, row |-> articulos[i]]>>]
    /\ pc' = [pc EXCEPT ![p] = "instance"]
    /\ UNCHANGED <<dbRounding, pedido, articulos, dist, calls, fresh, batch>>

\* A request sets the form fields of the instance it holds and saves it: the
\* derived fields are computed from the Pedido as it stands now, and every
\* column of the row is written (a new row when the instance has no key).
SaveArticulo(p, coste, venta, nacional) ==
    /\ pc[p] = "instance"
    /\ LET held == inst[p][1]
           a == save([held.row EXCEPT !.coste_euro = coste,
                                      !.precio_venta = venta,
                                      !.coste_envio_nacional = nacional],
                     pedido, dbRounding)
           pk == IF held.pk = 0 THEN Len(articulos) + 1 ELSE held.pk
       IN /\ articulos' = IF held.pk = 0 THEN Append(articulos, a)
                          ELSE [articulos EXCEPT ![pk] = a]
          /\ inst' = [inst EXCEPT ![p] = <<[pk |-> pk, row |-> a]>>]
    /\ pc' = [pc EXCEPT ![p] = "saved"]
    /\ fresh' = {}
    /\ UNCHANGED <<dbRounding, pedido, dist, calls, batch>>

\* A request changes one field of the Pedido.
SavePedido(p, campo, v) ==
    /\ pc[p] = "idle"
    /\ pedido[campo] # v
    /\ pedido' = [pedido EXCEPT ![campo] = v]
    /\ fresh' = {c \in fresh : TotalDe(c) # campo}
    /\ UNCHANGED <<dbRounding, articulos, pc, inst, dist, calls, batch>>

\* --------------------------------------------- Articulo's properties
\* Articulo.coste_adquisicion_total: the sum, or TypeError when the nullable
\* coste_envio_individual is None (Decimal + None).
coste_adquisicion_total(a) ==
    LET iva == OrZero(a.iva)
    IN IF a.coste_envio_individual = Null
       THEN [raised |-> TRUE, value |-> 0]
       ELSE [raised |-> FALSE,
             value |-> a.coste_euro + iva + a.coste_envio_individual[1]
                       + a.aduana_imputada + a.coste_envio_nacional]

\* Articulo.beneficio (precio_venta is a NOT NULL column).
beneficio(a) ==
    LET coste_total == coste_adquisicion_total(a)
    IN IF coste_total.raised THEN coste_total
       ELSE [raised |-> FALSE,
             value |-> a.precio_venta - coste_total.value - a.coste_envio_nacional]

\* ArticuloAdmin.get_queryset: the annotation _coste_total.
coste_total_expr(a) ==
    a.coste_euro + OrZero(a.iva) + OrZero(a.coste_envio_individual)
    + a.aduana_imputada + a.coste_envio_nacional

\* ArticuloAdmin.get_queryset: the annotation _beneficio.
anotacion_beneficio(a) == a.precio_venta - coste_total_expr(a)

\* Sum over a sequence of numbers (the database's Sum aggregate is exact).
RECURSIVE Sum(_)
Sum(xs) == IF xs = <<>> THEN 0 ELSE xs[Len(xs)] + Sum(SubSeq(xs, 1, Len(xs) - 1))

\* -------------------------------------------- Pedido._distribuir_coste
\* A faulty variant of HayQueDistribuir: a total of 0 is distributed too.
HayQueDistribuirCero(coste_total_pedido, rows) == coste_total_pedido >= 0 /\ rows # <<>>

\* `coste_total_pedido > 0 and articulos.exists()`.
HayQueDistribuir(coste_total_pedido, rows) == coste_total_pedido > 0 /\ rows # <<>>

\* articulos.aggregate(total=Sum('coste_euro'))['total'] or Decimal('0.00').
total_coste_base(rows) == Sum([i \in 1..Len(rows) |-> rows[i].coste_euro])

\* A faulty variant of proporcion: the proportion held at 2 decimal places.
proporcion_2_decimales(articulo, base) ==
    [coef |-> Digits(RoundInt(100 * articulo.coste_euro, base, "half_even")), exp |-> -2]

\* articulo.coste_euro / total_coste_base.
proporcion(articulo, base) == DecimalDiv(articulo.coste_euro, base)

\* coste_total_pedido * proporcion, a Decimal of up to Prec digits.
coste_calculado(articulo, coste_total_pedido, base) ==
    DecimalMul(coste_total_pedido, -2, proporcion(articulo, base))

\* A faulty variant of Share: the share added to the value the column holds.
ShareAcumulada(articulo, campo, coste_total_pedido, base, mode) ==
    Valor(articulo, campo)
    + Quantize(coste_calculado(articulo, coste_total_pedido, base), -2, mode)

\* A faulty variant of Share: the share cut to whole cents instead of rounded.
ShareTruncada(articulo, campo, coste_total_pedido, base, mode) ==
    (coste_total_pedido * articulo.coste_euro) \div base

\* What bulk_update stores in the column `campo` of an articulo: the value
\* setattr gave it, at the column's 2 decimal places.
Share(articulo, campo, coste_total_pedido, base, mode) ==
    Quantize(coste_calculado(articulo, coste_total_pedido, base), -2, mode)

\* A faulty variant of UncommittedWrite: no transaction, every row written is
\* committed at once.
AutocommitWrite(rows, i, campo, v) ==
    IF i <= Len(rows) THEN [rows EXCEPT ![i][campo] = Columna(campo, v)] ELSE rows

\* @transaction.atomic: a row written inside the block is not part of the
\* committed rows until the block exits without an exception.
UncommittedWrite(rows, i, campo, v) == rows

\* The exit of the atomic block: every row of the batch that still exists
\* takes its value.
Commit(rows, campo, pending) ==
    [i \in 1..Len(rows) |->
        IF i <= Len(pending)
        THEN [rows[i] EXCEPT ![campo] = Columna(campo, pending[i])]
        ELSE rows[i]]

\* distribuir_gastos_aduana / distribuir_coste_envio on the Pedido as the
\* request loads it: the call of _distribuir_coste with the order total.
CallDistribuir(p, campo) ==
    /\ pc[p] = "idle"
    /\ calls < MaxCalls
    /\ calls' = calls + 1
    /\ dist' = [dist EXCEPT ![p] =
                   [NoDist EXCEPT !.campo = campo,
                                  !.total = pedido[TotalDe(campo)],
                                  !.before = articulos,
                                  !.rerun = campo \in fresh]]
    /\ pc' = [pc EXCEPT ![p] = "guard"]
    /\ UNCHANGED <<dbRounding, pedido, articulos, inst, fresh, batch>>

\* Line 37: nothing to do for a total <= 0 or an order without items.
DistGuard(p) ==
    /\ pc[p] = "guard"
    /\ pc' = [pc EXCEPT ![p] =
                 IF HayQueDistribuir(dist[p].total, articulos)
                 THEN "aggregate" ELSE "returned"]
    /\ UNCHANGED <<dbRounding, pedido, articulos, inst, dist, calls, fresh, batch>>

\* Lines 38-40: the base-cost sum; nothing to do when it is <= 0.
DistAggregate(p) ==
    /\ pc[p] = "aggregate"
    /\ LET base == total_coste_base(articulos)
       IN /\ dist' = [dist EXCEPT ![p].base = base]
          /\ pc' = [pc EXCEPT ![p] = IF base > 0 THEN "iterate" ELSE "returned"]
    /\ UNCHANGED <<dbRounding, pedido, articulos, inst, calls, fresh, batch>>

\* Lines 41-48: every item of the order, as the loop's query finds them, gets
\* its share and joins the batch.
DistIterate(p) ==
    /\ pc[p] = "iterate"
    /\ LET pending == [i \in 1..Len(articulos) |->
                          Share(articulos[i], dist[p].campo, dist[p].total,
                                dist[p].base, dbRounding)]
       IN /\ dist' = [dist EXCEPT ![p].pending = pending]
          /\ pc' = [pc EXCEPT ![p] = IF pending # <<>> THEN "bulk_update" ELSE "returned"]
    /\ UNCHANGED <<dbRounding, pedido, articulos, inst, calls, fresh, batch>>

\* Line 49: bulk_update writes the next row of the batch.
DistBulkUpdate(p) ==
    /\ pc[p] = "bulk_update"
    /\ dist[p].wrote < Len(dist[p].pending)
    /\ LET k == dist[p].wrote + 1
       IN /\ articulos' = UncommittedWrite(articulos, k, dist[p].campo,
                                           dist[p].pending[k])
          /\ dist' = [dist EXCEPT ![p].wrote = k]
    /\ UNCHANGED <<dbRounding, pedido, pc, inst, calls, fresh, batch>>

\* The batch write fails (a database error): the exception leaves the atomic
\* block, which rolls back, and reaches the caller.
DistError(p) ==
    /\ pc[p] = "bulk_update"
    /\ pc' = [pc EXCEPT ![p] = "raised"]
    /\ UNCHANGED <<dbRounding, pedido, articulos, inst, dist, calls, fresh, batch>>

\* Lines 49-50: the batch is written; the call returns True and the atomic
\* block commits.
DistCommit(p) ==
    /\ pc[p] = "bulk_update"
    /\ dist[p].wrote = Len(dist[p].pending)
    /\ articulos' = Commit(articulos, dist[p].campo, dist[p].pending)
    /\ dist' = [dist EXCEPT ![p].result = TRUE]
    /\ pc' = [pc EXCEPT ![p] = "returned"]
    /\ fresh' = fresh \cup {dist[p].campo}
    /\ batch' = [batch EXCEPT ![dist[p].campo] = dist[p].pending]
    /\ UNCHANGED <<dbRounding, pedido, inst, calls>>

\* The request ends.
Return(p) ==
    /\ pc[p] \in {"returned", "raised", "saved"}
    /\ pc' = [pc EXCEPT ![p] = "idle"]
    /\ inst' = [inst EXCEPT ![p] = <<>>]
    /\ dist' = [dist EXCEPT ![p] = NoDist]
    /\ UNCHANGED <<dbRounding, pedido, articulos, calls, fresh, batch>>

\* The steps of a distribution call.
Distribuir(p) ==
    \/ \E campo \in Campos : CallDistribuir(p, campo)
    \/ DistGuard(p)
    \/ DistAggregate(p)
    \/ DistIterate(p)
    \/ DistBulkUpdate(p)
    \/ DistError(p)
    \/ DistCommit(p)

\* ------------------------------------------------------ specifications
\* A Pedido as its field defaults leave it, with the given rates.
Pedido(tasa_cambio, tasa_iva) ==
    [coste_envio_agrupado |-> 0, gastos_aduana |-> 0,
     tasa_cambio_eur_jpy |-> tasa_cambio, tasa_iva |-> tasa_iva]

\* Spec: one request at a time adds items, edits the order totals and
\* distributes.  Items differ only in coste_euro and the code never reads their
\* order, so they are added by non-decreasing coste_euro: one representative of
\* each multiset of base costs.
CostesBase == {0, 1000, 2000}

GastosAduana == {-100, 0, 2, 1500, 3000}

CostesEnvio == {0, 1500}

Init ==
    /\ InitCommon
    /\ pedido = Pedido(1005000, 21)
    /\ articulos = <<>>

Next ==
    \/ NewArticulo(1, Some(0), 0)
    \/ \E c \in CostesBase :
          /\ articulos # <<>> => articulos[Len(articulos)].coste_euro <= c
          /\ SaveArticulo(1, c, 0, 0)
    \/ \E v \in GastosAduana : SavePedido(1, "gastos_aduana", v)
    \/ \E v \in CostesEnvio : SavePedido(1, "coste_envio_agrupado", v)
    \/ Distribuir(1)
    \/ Return(1)

Spec == Init /\ [][Next]_vars

\* SpecItem: one request at a time creates and re-saves one item of an order
\* whose rates change.
TasasIva == {0, 10, 21}

TasasCambio == {0, 10000, 1005000}

CostesItem == {0, 50, 100, 150}

EnviosIndividuales == {Null, Some(0), Some(300)}

AduanasImputadas == {0, 200}

PreciosVenta == {0, 10000}

EnviosNacionales == {0, 500}

InitItem ==
    /\ InitCommon
    /\ pedido \in {Pedido(tc, ti) : tc \in TasasCambio, ti \in TasasIva}
    /\ articulos = <<>>

NextItem ==
    \/ \E envio \in EnviosIndividuales, aduana \in AduanasImputadas :
          articulos = <<>> /\ NewArticulo(1, envio, aduana)
    \/ \E i \in 1..Len(articulos) : LoadArticulo(1, i)
    \/ \E c \in CostesItem, venta \in PreciosVenta, nacional \in EnviosNacionales :
          SaveArticulo(1, c, venta, nacional)
    \/ \E v \in TasasIva : SavePedido(1, "tasa_iva", v)
    \/ \E v \in TasasCambio : SavePedido(1, "tasa_cambio_eur_jpy", v)
    \/ Return(1)

SpecItem == InitItem /\ [][NextItem]_vars

\* SpecConc: two concurrent requests on an order of two saved items; each
\* edits the customs total, re-saves an item as it loaded it, or distributes
\* the customs total (no write fails here).
GastosConc == {1500, 3000}

InitConc ==
    /\ InitCommon
    /\ pedido = [Pedido(1005000, 21) EXCEPT !.gastos_aduana = 3000]
    /\ articulos = <<save([Articulo(Some(0), 0) EXCEPT !.coste_euro = 1000],
                          pedido, dbRounding),
                     save([Articulo(Some(0), 0) EXCEPT !.coste_euro = 2000],
                          pedido, dbRounding)>>

NextConc ==
    \E p \in Requests :
        \/ \E i \in 1..Len(articulos) : LoadArticulo(p, i)
        \/ /\ pc[p] = "instance"
           /\ SaveArticulo(p, inst[p][1].row.coste_euro, 0, 0)
        \/ \E v \in GastosConc : SavePedido(p, "gastos_aduana", v)
        \/ CallDistribuir(p, "aduana_imputada")
        \/ DistGuard(p)
        \/ DistAggregate(p)
        \/ DistIterate(p)
        \/ DistBulkUpdate(p)
        \/ DistCommit(p)
        \/ Return(p)

SpecConc == InitConc /\ [][NextConc]_vars

\* -------------------------------------------------------------- claims
\* The call of request p has returned True: its batch is committed.
Distributed(p) == pc[p] = "returned" /\ dist[p].result

\* The target column of every row, NULL read as 0.
Valores(rows, campo) == [i \in 1..Len(rows) |-> Valor(rows[i], campo)]

\* The sum of the stored target field minus the total of p's call.
Residuo(p) == Sum(Valores(articulos, dist[p].campo)) - dist[p].total

\* The three cases in which the call of request p has nothing to do.
NoOpCase(p) ==
    \/ dist[p].total <= 0
    \/ dist[p].before = <<>>
    \/ Sum([i \in 1..Len(dist[p].before) |-> dist[p].before[i].coste_euro]) <= 0

\* The row the request p has just saved.
Saved(p) == articulos[inst[p][1].pk]

\* C1 (as stated): after a distribution the stored shares sum to the order
\* total within one cent, whatever the number of items.
C1_SumWithinOneCent ==
    \A p \in Requests : Distributed(p) => Abs(Residuo(p)) <= 1

\* C1 (amended): after a distribution the stored shares sum to the order total
\* within half a cent per item of the order.
C1_SumWithinHalfCentPerItem ==
    \A p \in Requests : Distributed(p) => 2 * Abs(Residuo(p)) <= Len(articulos)

\* A distribution over three items left a residue of one cent.
C1_Witness ==
    \E p \in Requests :
        Distributed(p) /\ Len(articulos) = 3 /\ Abs(Residuo(p)) = 1

\* C2: after a distribution every item of the order holds, in the target
\* field, a cent value nearest to total * coste_euro / base_sum; base costs
\* 10.00 and 20.00 give 10.00 and 20.00 for a customs total of 30.00, and 5.00
\* and 10.00 for 15.00.
C2_EveryItemGetsItsShare ==
    \A p \in Requests :
        Distributed(p) =>
            LET campo == dist[p].campo
                total == dist[p].total
                costes == [i \in 1..Len(articulos) |-> articulos[i].coste_euro]
                base == Sum(costes)
                valores == Valores(articulos, campo)
            IN /\ \A i \in 1..Len(articulos) :
                     2 * Abs(base * valores[i] - total * costes[i]) <= base
               /\ costes = <<1000, 2000>> /\ total = 3000 => valores = <<1000, 2000>>
               /\ costes = <<1000, 2000>> /\ total = 1500 => valores = <<500, 1000>>

\* A customs total of 15.00 was distributed over base costs 10.00 and 20.00.
C2_Witness ==
    \E p \in Requests :
        /\ Distributed(p)
        /\ dist[p].campo = "aduana_imputada"
        /\ dist[p].total = 1500
        /\ [i \in 1..Len(articulos) |-> articulos[i].coste_euro] = <<1000, 2000>>
        /\ Valores(articulos, "aduana_imputada") = <<500, 1000>>

\* C3: a distribution call returns False, raises nothing and leaves every item
\* as it was when the total is <= 0, the order has no items or the base costs
\* sum to <= 0; in every other case it returns True.
C3_NoOpCases ==
    \A p \in Requests :
        /\ pc[p] = "returned" =>
               /\ dist[p].result = ~NoOpCase(p)
               /\ NoOpCase(p) => articulos = dist[p].before
        /\ pc[p] = "raised" => ~NoOpCase(p)

\* A call with a total <= 0 returned False on items that hold a share.
C3_Witness ==
    \E p \in Requests :
        /\ pc[p] = "returned"
        /\ ~dist[p].result
        /\ dist[p].total <= 0
        /\ \E i \in 1..Len(articulos) : Valor(articulos[i], dist[p].campo) > 0

\* C4: while the batch is being written and after a failure of the write, the
\* committed items are as they were before the call, and the failure reaches
\* the caller; at no time are some items updated by the call and others not.
C4_FailureRollsBack ==
    \A p \in Requests :
        /\ pc[p] \in {"bulk_update", "raised"} => articulos = dist[p].before
        /\ pc[p] = "raised" => ~dist[p].result
        /\ dist[p].campo \in Campos =>
               \/ Valores(articulos, dist[p].campo)
                      = Valores(dist[p].before, dist[p].campo)
               \/ Valores(articulos, dist[p].campo) = dist[p].pending

\* The write failed after a row that changes its item and before the last row.
C4_Witness ==
    \E p \in Requests :
        /\ pc[p] = "raised"
        /\ dist[p].wrote < Len(dist[p].pending)
        /\ \E i \in 1..dist[p].wrote :
               dist[p].pending[i] # Valor(dist[p].before[i], dist[p].campo)

\* C5: once no request is in progress, the target field of every item holds
\* the share the last committed distribution call wrote in its batch.
C5_BatchStaysWhole ==
    \A campo \in Campos :
        (\A p \in Requests : pc[p] = "idle") /\ batch[campo] # <<>>
            => Valores(articulos, campo) = batch[campo]

\* C6: a distribution that runs again, the order total, the items and their
\* base costs unchanged since its last run, leaves every item's target field
\* as that run left it.
C6_Idempotent ==
    \A p \in Requests :
        Distributed(p) /\ dist[p].rerun =>
            Valores(articulos, dist[p].campo)
                = Valores(dist[p].before, dist[p].campo)

\* A distribution ran a second time on unchanged inputs, over non-zero shares.
C6_Witness ==
    \E p \in Requests :
        /\ Distributed(p)
        /\ dist[p].rerun
        /\ \E i \in 1..Len(articulos) : Valor(articulos[i], dist[p].campo) > 0

\* C7: after every save of an item with a positive base cost, its stored iva
\* is coste_euro * tasa_iva at the nearest cent, for any tasa_iva of the order.
C7_IvaAfterSave ==
    \A p \in Requests :
        pc[p] = "saved" /\ Saved(p).coste_euro > 0 =>
            /\ Saved(p).iva # Null
            /\ 2 * Abs(100 * OrZero(Saved(p).iva)
                       - Saved(p).coste_euro * pedido.tasa_iva) <= 100

\* What coste_yen * 1000000 exceeds coste_euro * tasa_cambio_eur_jpy by.
ExcesoYen(a) ==
    1000000 * OrZero(a.coste_yen) - a.coste_euro * pedido.tasa_cambio_eur_jpy

\* C8 (as stated): after every save with a base cost and an exchange rate,
\* coste_yen is the product at the nearest integer, an exact half rounded up.
C8_YenHalfUp ==
    \A p \in Requests :
        pc[p] = "saved" /\ Saved(p).coste_euro # 0 /\ pedido.tasa_cambio_eur_jpy # 0 =>
            /\ Saved(p).coste_yen # Null
            /\ 2 * Abs(ExcesoYen(Saved(p))) <= 1000000
            /\ 2 * Abs(ExcesoYen(Saved(p))) = 1000000 => ExcesoYen(Saved(p)) > 0

\* C8 (amended): after every save with a base cost and an exchange rate,
\* coste_yen is the product at the nearest integer, an exact half rounded to
\* the even integer.
C8_YenHalfEven ==
    \A p \in Requests :
        pc[p] = "saved" /\ Saved(p).coste_euro # 0 /\ pedido.tasa_cambio_eur_jpy # 0 =>
            /\ Saved(p).coste_yen # Null
            /\ 2 * Abs(ExcesoYen(Saved(p))) <= 1000000
            /\ 2 * Abs(ExcesoYen(Saved(p))) = 1000000 => Saved(p).coste_yen[1] % 2 = 0

\* An item of base cost 1.00 was saved at a rate of 100.5: coste_yen is 100.
C8_Witness ==
    \E p \in Requests :
        /\ pc[p] = "saved"
        /\ Saved(p).coste_euro = 100
        /\ pedido.tasa_cambio_eur_jpy = 1005000
        /\ Saved(p).coste_yen = Some(100)

\* C9: for every item coste_adquisicion_total returns, without an error, the
\* sum of coste_euro, iva, coste_envio_individual, aduana_imputada and
\* coste_envio_nacional, a null field counting as zero.
C9_TotalOfEveryItem ==
    \A i \in 1..Len(articulos) :
        LET a == articulos[i]
        IN /\ ~coste_adquisicion_total(a).raised
           /\ coste_adquisicion_total(a).value
                  = a.coste_euro + OrZero(a.iva) + OrZero(a.coste_envio_individual)
                    + a.aduana_imputada + a.coste_envio_nacional

\* C10: for every item with no null cost field, the profit annotated for the
\* admin list equals the profit Articulo.beneficio returns.
C10_ProfitsAgree ==
    \A i \in 1..Len(articulos) :
        LET a == articulos[i]
        IN a.iva # Null /\ a.coste_envio_individual # Null =>
               /\ ~beneficio(a).raised
               /\ anotacion_beneficio(a) = beneficio(a).value

====
